---- MODULE Spec2Model ----
(***************************************************************************)
(* Take-profit orchestration of                                            *)
(* services/python-service/app/services/orders/takeprofit_service.py:      *)
(* TakeProfitService.add_takeprofit, TakeProfitService.cancel_takeprofit   *)
(* and _wait_for_provider_ack, with the stores they talk to (trigger       *)
(* store, the two Redis keyspaces, lifecycle registry, RabbitMQ queue,     *)
(* provider gateway, provider:ack channel).                                *)
(*                                                                         *)
(* Every `await` of a handler is one step of the request that runs it; the *)
(* synchronous code between two awaits belongs to the step that follows    *)
(* the first.  Every collaborator call chooses its outcome (a value, a     *)
(* False return, a raised exception) nondeterministically.                 *)
(***************************************************************************)
EXTENDS Integers, Sequences, FiniteSets, TLC

VARIABLES
    world,          \* what the collaborators' lookups are backed by (fixed)
    triggers,       \* sl_tp_repository: order_id -> trigger row
    order_data,     \* Redis order_data:<order_id> hashes
    user_holdings,  \* Redis user_holdings:{<user_type>:<user_id>}:<order_id> hashes
    registry,       \* order_registry: lifecycle ids recorded
    queue,          \* order_db_update_queue: messages published, oldest first
    gateway,        \* service_provider_client: payloads the gateway accepted
    acks,           \* Redis provider:ack:<id> values
    now,            \* time.time(), in milliseconds
    waiter,         \* the _wait_for_provider_ack call and where it stands
    ack_log,        \* the writes of the acknowledgment consumer, oldest first
    req,            \* per task: the request it runs and where it stands
    pre,            \* the stores as they were when the latest request began
    started,        \* requests begun so far
    history         \* the requests that came before, as they ended (kept by
                    \* the add-then-cancel scenario only)

vars == <<world, triggers, order_data, user_holdings, registry, queue,
          gateway, acks, now, waiter, ack_log, history, req, pre, started>>

stores == <<triggers, order_data, user_holdings, registry, queue, gateway>>

(***************************************************************************)
(* Bounds of the model: the requests a behaviour of Spec makes.            *)
(***************************************************************************)
MaxRequests == 1

Procs == {1, 2}

(***************************************************************************)
(* Python values.  A str keeps its text; str.lower, str.upper and          *)
(* str.strip are tabulated on the texts the model uses.  A float is        *)
(* [k |-> "num", v |-> n] or the NaN float(...) yields for "nan"; None is  *)
(* NoneV.                                                                  *)
(***************************************************************************)
NoneV == [k |-> "none"]
NaN == [k |-> "nan"]
Garbage == [k |-> "text"]
Num(n) == [k |-> "num", v |-> n]

LowerMap ==
    ("DEMO" :> "demo") @@ ("Live" :> "live") @@ ("Rock" :> "rock")
    @@ ("BARCLAYS" :> "barclays") @@ ("Copy_Follower" :> "copy_follower")

UpperMap ==
    ("buy" :> "BUY") @@ ("sell" :> "SELL") @@ (" buy" :> " BUY")
    @@ ("hold" :> "HOLD") @@ ("eurusd" :> "EURUSD") @@ ("cancelled" :> "CANCELLED")
    @@ ("Rejected" :> "REJECTED")

StripMap ==
    (" A" :> "A") @@ (" demo" :> "demo") @@ (" live" :> "live")
    @@ (" rock " :> "rock") @@ (" Rock " :> "Rock") @@ (" BUY" :> "BUY")
    @@ (" buy" :> "buy") @@ (" X1 " :> "X1")

\* str.lower()
Lower(s) == IF s \in DOMAIN LowerMap THEN LowerMap[s] ELSE s

\* str.upper()
Upper(s) == IF s \in DOMAIN UpperMap THEN UpperMap[s] ELSE s

\* str.strip()
Strip(s) == IF s \in DOMAIN StripMap THEN StripMap[s] ELSE s

\* _safe_float(v), lines 13-19: None for None and for what float() rejects.
safe_float(v) ==
    CASE v.k \in {"num", "nan"} -> v
      [] v.k = "str" -> v.of
      [] OTHER -> NoneV

\* float addition and subtraction (NaN is absorbing).
FAdd(a, b) == IF a.k = "nan" \/ b.k = "nan" THEN NaN ELSE Num(a.v + b.v)

FSub(a, b) == IF a.k = "nan" \/ b.k = "nan" THEN NaN ELSE Num(a.v - b.v)

\* `x <= 0` on floats: every comparison with NaN is False.
FLeqZero(a) == a.k = "num" /\ a.v <= 0

\* str(x) of a float, as the caches hold it.
Str(f) == [k |-> "str", of |-> f]

\* dict.get(key), None when the key is absent.
Get(d, key) == IF key \in DOMAIN d THEN d[key] ELSE NoneV

\* Truthiness of d.get(key) for a key that holds a str: an absent key gives
\* None, and None and "" are falsy.
Truthy(d, key) == key \in DOMAIN d /\ d[key] # ""

\* d.get(key) or default, for a key that holds a str.
GetOr(d, key, default) == IF Truthy(d, key) THEN d[key] ELSE default

Restrict(f, S) == [x \in (DOMAIN f) \cap S |-> f[x]]

\* redis HSET key mapping: the fields of the mapping replace the hash's.
HSet(h, mapping) == mapping @@ h

\* redis HDEL key field.
HDel(h, field) == Restrict(h, (DOMAIN h) \ {field})

Range(s) == {s[i] : i \in DOMAIN s}

(***************************************************************************)
(* The world behind the lookups.  An order belongs to one account and has  *)
(* one side; the group's market parameters are configuration.  Callers     *)
(* pass these attributes in any spelling (case, surrounding blanks).       *)
(***************************************************************************)
AccountTypes == {"demo", "live", "strategy_provider", "copy_follower", "admin"}

\* fetch_group_data results: spread * spread_pip is even in each, so that
\* `/ 2.0` is exact on integers.
GroupDatas ==
    { ("spread" :> Num(2)) @@ ("spread_pip" :> Num(1)) @@ ("contract_size" :> Num(100)),
      ("spread" :> Num(0 - 2)) @@ ("spread_pip" :> Num(1)) @@ ("contract_size" :> Num(100)),
      ("spread_pip" :> Num(1)),
      ("spread" :> Garbage) @@ ("spread_pip" :> Num(3)) @@ ("contract_size" :> Garbage) }

\* The account's stored configuration apart from its routing preference.
AccountConfigs == {<<>>, ("group" :> "VIP")}

\* order_data:A as the order services left it when the order was placed:
\* nothing, the open order, the open order with its contract value.
PlacedOrders ==
    { <<>>,
      ("status" :> "OPEN") @@ ("order_quantity" :> Str(Num(1))) @@ ("order_price" :> Str(Num(10))),
      ("status" :> "OPEN") @@ ("contract_value" :> Str(Num(500))) }

BaseWorld ==
    [account |-> "live", side |-> "BUY",
     gdata |-> ("spread" :> Num(2)) @@ ("spread_pip" :> Num(1)) @@ ("contract_size" :> Num(100)),
     config |-> <<>>,
     placed |-> ("status" :> "OPEN") @@ ("order_quantity" :> Str(Num(1)))
                @@ ("order_price" :> Str(Num(10)))]

\* The worlds of the model: the base world with at most one attribute
\* changed.
Worlds ==
    { w \in [account : AccountTypes, side : {"BUY", "SELL"}, gdata : GroupDatas,
             config : AccountConfigs, placed : PlacedOrders] :
        Cardinality({f \in DOMAIN BaseWorld : w[f] # BaseWorld[f]}) <= 1 }

\* The spellings a caller may give an account type.
RawUserTypes(a) ==
    CASE a = "demo" -> {"demo", "DEMO", " demo"}
      [] a = "live" -> {"live", "Live", " live"}
      [] a = "copy_follower" -> {"copy_follower", "Copy_Follower"}
      [] OTHER -> {a}

\* The spellings a caller may give a side, and one that is no side.
RawSides(s) ==
    IF s = "BUY" THEN {"buy", "BUY", " buy", "hold"} ELSE {"sell", "SELL", "hold"}

OrderIdsIn == {"A", " A"}

OrderIds == {"A", " A", "B"}

\* The orders that have been placed.
PlacedIds == {"A", "B"}

UserIds == {"U1"}

\* The account types that reach a store write (every other one is unsupported).
KeyUserTypes == {"demo", "live", "strategy_provider", "copy_follower"}

HoldingKeys == KeyUserTypes \X UserIds \X OrderIds

\* take_profit as callers give it: a price, zero, negative, None, text that
\* is no number, and the text "nan".
TakeProfitsIn == {Num(10), Num(0), Num(0 - 4), NoneV, Garbage, NaN}

\* fetch_user_config results: sending_orders absent, empty, in several
\* spellings, and one that names no route; the group is the account's.
SendingOrdersIn == {"", "rock", "barclays", " Rock ", "BARCLAYS", "paper"}

Configs(w) ==
    { Restrict(("sending_orders" :> so) @@ w.config, K) :
        so \in SendingOrdersIn, K \in {DOMAIN w.config, DOMAIN w.config \cup {"sending_orders"}} }

\* A payload that has every key add_takeprofit and cancel_takeprofit require,
\* and a score_take_profit of the caller's own, which neither reads.
BasePayload(w) ==
    ("order_id" :> "A") @@ ("user_id" :> "U1") @@ ("user_type" :> w.account)
    @@ ("symbol" :> "eurusd") @@ ("order_type" :> w.side)
    @@ ("take_profit" :> Num(10)) @@ ("takeprofit_id" :> "T1")
    @@ ("score_take_profit" :> Num(99))

AddRequired == <<"order_id", "user_id", "user_type", "symbol", "order_type", "take_profit">>

CancelRequired == <<"order_id", "user_id", "user_type", "symbol", "order_type", "takeprofit_id">>

\* Payloads with some required keys absent.
PayloadsMissing(w, required) ==
    { Restrict(BasePayload(w), (DOMAIN BasePayload(w)) \ M) :
        M \in (SUBSET Range(required)) \ {{}} }

\* Payloads with every required key: the base payload with one key given
\* each of its values.
PayloadsFull(w) ==
    LET base == BasePayload(w)
    IN  { [base EXCEPT !["order_id"] = v] : v \in OrderIdsIn }
        \cup { [base EXCEPT !["user_type"] = v] : v \in RawUserTypes(w.account) }
        \cup { [base EXCEPT !["order_type"] = v] : v \in RawSides(w.side) }
        \cup { [base EXCEPT !["take_profit"] = v] : v \in TakeProfitsIn }

\* The base payload without some of the keys of `without` and with all or
\* none of the keys of `with`.
PayloadsOptional(w, without, with) ==
    { Restrict(with @@ BasePayload(w), ((DOMAIN BasePayload(w)) \ R) \cup K) :
        R \in SUBSET without, K \in {{}, DOMAIN with} }

AddOptional == ("order_quantity" :> Num(2)) @@ ("order_price" :> Num(10))

CancelOptional == ("takeprofit_cancel_id" :> " X1 ")

AddPayloads(w) ==
    PayloadsMissing(w, AddRequired) \cup PayloadsFull(w)
    \cup PayloadsOptional(w, {"takeprofit_id"}, AddOptional)

CancelPayloads(w) ==
    PayloadsMissing(w, CancelRequired) \cup PayloadsFull(w)
    \cup PayloadsOptional(w, {}, CancelOptional)

(***************************************************************************)
(* A task's request.                                                       *)
(***************************************************************************)
Unset == "-"

NoResult == <<>>

Idle ==
    [op |-> "none", pc |-> "idle", payload |-> <<>>,
     order_id |-> Unset, user_id |-> Unset, user_type |-> Unset, symbol |-> Unset,
     side |-> Unset, tp_raw |-> NoneV, group |-> Unset, sending_orders |-> Unset,
     flow |-> Unset, half_spread |-> NoneV, score_tp |-> NoneV, provider_tp |-> NoneV,
     qty |-> NoneV, entry_price |-> NoneV, cv_existing |-> NoneV,
     contract_value |-> NoneV, takeprofit_cancel_id |-> Unset, cfg |-> <<>>,
     result |-> NoResult, trace |-> <<>>]

\* A collaborator call as the request's trace records it.
Call(name, out) == [call |-> name, out |-> out]

\* `return result`.
Return(r, result) == [r EXCEPT !.pc = "done", !.result = result]

\* An exception that no handler catches leaves the coroutine.
Raise(r) == [r EXCEPT !.pc = "raised"]

Called(r, name, out) == [r EXCEPT !.trace = Append(@, Call(name, out))]

\* A call whose result carries a value besides its outcome.
CalledWith(r, name, out, value) ==
    [r EXCEPT !.trace = Append(@, [call |-> name, out |-> out, value |-> value])]

\* cfg and sending_orders are not read after the flow is decided (lines 70
\* and 271); the request keeps them until its next step only.
Forget(r) == [r EXCEPT !.sending_orders = Unset, !.cfg = <<>>]

(***************************************************************************)
(* Construction: the stores hold what the order services wrote when the     *)
(* order was placed (nothing, or order "A" open), no trigger, no message.   *)
(***************************************************************************)
\* No _wait_for_provider_ack call has been made.
NotWaiting ==
    [pc |-> "idle", any_id |-> Unset, timeout_ms |-> 0, deadline |-> 0,
     key |-> Unset, expect |-> {}, wake |-> 0, result |-> NoneV, polls |-> <<>>]

Snapshot == [triggers |-> triggers, order_data |-> order_data,
             user_holdings |-> user_holdings, registry |-> registry,
             queue |-> queue, gateway |-> gateway]

Init ==
    /\ world \in Worlds
    /\ triggers = <<>>
    /\ order_data = [o \in OrderIds |-> IF o \in PlacedIds THEN world.placed ELSE <<>>]
    /\ user_holdings =
          [h \in HoldingKeys |->
              IF h \in {<<world.account, "U1", o>> : o \in PlacedIds}
              THEN Restrict(world.placed, {"status"}) ELSE <<>>]
    /\ registry = {}
    /\ queue = <<>>
    /\ gateway = <<>>
    /\ acks = <<>>
    /\ now = 0
    /\ waiter = NotWaiting
    /\ ack_log = <<>>
    /\ req = [p \in Procs |-> Idle]
    /\ pre = Snapshot
    /\ started = 0
    /\ history = <<>>

(***************************************************************************)
(* add_takeprofit, lines 36-50: the synchronous validation.                *)
(***************************************************************************)
\* What a validated request keeps of its payload: the keys the handlers read
\* again (lines 161-225 and 324-332), and the order id and the prices as the
\* caller gave them.
AddKept ==
    {"order_id", "takeprofit_id", "order_status", "order_quantity", "order_price",
     "take_profit", "score_take_profit"}

CancelKept == {"order_id", "takeprofit_id", "takeprofit_cancel_id"}

Missing(payload, required) == SelectSeq(required, LAMBDA k : k \notin DOMAIN payload)

add_validate(payload) ==
    LET missing == Missing(payload, AddRequired)
        r0 == [Idle EXCEPT !.op = "add", !.payload = payload]
    IN  IF missing # <<>>
        THEN Return(r0, [ok |-> FALSE, reason |-> <<"missing_fields">>, fields |-> missing])
        ELSE LET side == Upper(payload["order_type"])
                 tp_raw == safe_float(Get(payload, "take_profit"))
             IN  IF side \notin {"BUY", "SELL"}
                 THEN Return(r0, [ok |-> FALSE, reason |-> <<"invalid_order_type">>])
                 ELSE IF tp_raw = NoneV \/ FLeqZero(tp_raw)
                 THEN Return(r0, [ok |-> FALSE, reason |-> <<"invalid_take_profit">>])
                 ELSE [r0 EXCEPT !.pc = "fetch_user_config",
                                 !.payload = Restrict(payload, AddKept),
                                 !.order_id = payload["order_id"],
                                 !.user_id = payload["user_id"],
                                 !.user_type = Lower(payload["user_type"]),
                                 !.symbol = Upper(payload["symbol"]),
                                 !.side = side,
                                 !.tp_raw = tp_raw]

(***************************************************************************)
(* cancel_takeprofit, lines 241-252.                                       *)
(***************************************************************************)
cancel_validate(payload) ==
    LET missing == Missing(payload, CancelRequired)
        r0 == [Idle EXCEPT !.op = "cancel", !.payload = payload]
    IN  IF missing # <<>>
        THEN Return(r0, [ok |-> FALSE, reason |-> <<"missing_fields">>, fields |-> missing])
        ELSE LET side == Strip(Upper(payload["order_type"]))
             IN  IF side \notin {"BUY", "SELL"}
                 THEN Return(r0, [ok |-> FALSE, reason |-> <<"invalid_order_type">>])
                 ELSE [r0 EXCEPT !.pc = "fetch_user_config",
                                 !.payload = Restrict(payload, CancelKept),
                                 !.order_id = Strip(payload["order_id"]),
                                 !.user_id = Strip(payload["user_id"]),
                                 !.user_type = Strip(Lower(payload["user_type"])),
                                 !.symbol = Strip(Upper(payload["symbol"])),
                                 !.side = side]

(***************************************************************************)
(* The flow decision, written out twice in the source: lines 56-70 in      *)
(* add_takeprofit and lines 257-271 in cancel_takeprofit.                  *)
(***************************************************************************)
\* A flow decision that sends every live account without a known preference
\* to the provider.
add_flow_live_default(user_type, sending_orders) ==
    IF user_type = "demo" \/ sending_orders = "rock" THEN "local"
    ELSE IF user_type \in {"live", "strategy_provider", "copy_follower"} THEN "provider"
    ELSE "unsupported"

add_flow(user_type, sending_orders) ==
    IF user_type = "demo" \/ (user_type = "live" /\ sending_orders = "rock")
    THEN "local"
    ELSE IF user_type = "live" /\ sending_orders = "barclays"
    THEN "provider"
    ELSE IF user_type \in {"strategy_provider", "copy_follower"}
    THEN IF sending_orders = "rock" THEN "local"
         ELSE IF sending_orders = "barclays" THEN "provider"
         ELSE "provider"
    ELSE "unsupported"

cancel_flow(user_type, sending_orders) ==
    IF user_type = "demo" \/ (user_type = "live" /\ sending_orders = "rock")
    THEN "local"
    ELSE IF user_type = "live" /\ sending_orders = "barclays"
    THEN "provider"
    ELSE IF user_type \in {"strategy_provider", "copy_follower"}
    THEN IF sending_orders = "rock" THEN "local"
         ELSE IF sending_orders = "barclays" THEN "provider"
         ELSE "provider"
    ELSE "unsupported"

\* The preference lower-cased but not trimmed.
sending_orders_untrimmed(cfg) == Lower(GetOr(cfg, "sending_orders", ""))

\* Lines 54-55 and 255-256: the group and the routing preference of a config.
config_group(cfg) == GetOr(cfg, "group", "Standard")

config_sending_orders(cfg) == Lower(Strip(GetOr(cfg, "sending_orders", "")))

UnsupportedFlow(r) ==
    [ok |-> FALSE, reason |-> <<"unsupported_flow">>,
     details |-> [user_type |-> r.user_type, sending_orders |-> r.sending_orders]]

(***************************************************************************)
(* Floats of the spread computation.                                       *)
(***************************************************************************)
FMul(a, b) == IF a.k = "nan" \/ b.k = "nan" THEN NaN ELSE Num(a.v * b.v)

\* x / 2.0, exact on the even products the model uses.
FHalf(a) == IF a.k = "nan" THEN NaN ELSE Num(a.v \div 2)

\* _compute_half_spread, lines 25-29, on the dict fetch_group_data returned.
half_spread_of(g) ==
    LET spread == safe_float(Get(g, "spread"))
        spread_pip == safe_float(Get(g, "spread_pip"))
    IN  IF spread = NoneV \/ spread_pip = NoneV
        THEN Num(0)
        ELSE FHalf(FMul(spread, spread_pip))

\* A score that adds the half spread whatever the side.
score_take_profit_added(side, tp_raw, half_spread) == FAdd(tp_raw, half_spread)

\* Lines 76-79: the price the trigger is monitored at.
score_take_profit(side, tp_raw, half_spread) ==
    IF side = "BUY" THEN FAdd(tp_raw, half_spread) ELSE FSub(tp_raw, half_spread)

\* Lines 155-158: the price sent to the provider.
provider_take_profit(side, tp_raw, half_spread) ==
    IF side = "BUY" THEN FAdd(tp_raw, half_spread) ELSE FSub(tp_raw, half_spread)

(***************************************************************************)
(* The stores.                                                             *)
(***************************************************************************)
\* upsert_order_triggers(order_id=..., ...) when it returns True.
upsert_order_triggers(trigs, order_id, row) == (order_id :> row) @@ trigs

\* remove_takeprofit_trigger(order_id) when it returns.
remove_takeprofit_trigger(trigs, order_id) == Restrict(trigs, (DOMAIN trigs) \ {order_id})

\* A key that leaves the order id out: one record for all of a user's orders.
HoldingKey_per_user(r) == <<r.user_type, r.user_id, "A">>

\* The user_holdings key of lines 109-110 (and 170-171, 280-281, 357-358).
HoldingKey(r) == <<r.user_type, r.user_id, r.order_id>>

Redis == [order_data |-> order_data, user_holdings |-> user_holdings]

HSetCmd(ks, key, mapping) == [cmd |-> "hset", ks |-> ks, key |-> key, arg |-> mapping]

HDelCmd(ks, key, field) == [cmd |-> "hdel", ks |-> ks, key |-> key, arg |-> field]

\* One command of a pipeline, on both keyspaces.
ApplyCmd(st, c) ==
    LET h == st[c.ks][c.key]
        h2 == IF c.cmd = "hset" THEN HSet(h, c.arg) ELSE HDel(h, c.arg)
    IN  [st EXCEPT ![c.ks] = [@ EXCEPT ![c.key] = h2]]

\* The first n commands of a pipeline, in order.
RECURSIVE ApplyCmds(_, _, _)
ApplyCmds(st, cmds, n) ==
    IF n = 0 THEN st ELSE ApplyCmd(ApplyCmds(st, cmds, n - 1), cmds[n])

\* What pipe.execute() may do: apply every command, or raise after any
\* proper prefix of them was applied (a cluster pipeline is no transaction).
PipelineOutcomes(cmds) ==
    {[out |-> "ok", n |-> Len(cmds)]} \cup {[out |-> "raise", n |-> k] : k \in 0 .. Len(cmds) - 1}

\* pipe.execute() with outcome o, on both keyspaces.
PipelineExecute(cmds, o) ==
    /\ order_data' = ApplyCmds(Redis, cmds, o.n).order_data
    /\ user_holdings' = ApplyCmds(Redis, cmds, o.n).user_holdings

At(p, op, pc) == req[p].op = op /\ req[p].pc = pc

(***************************************************************************)
(* add_takeprofit, step by step.                                           *)
(***************************************************************************)
\* Lines 36-50: the call, validated before the first await.
AddBegin(p) ==
    /\ req[p].pc = "idle"
    /\ started < MaxRequests
    /\ \E payload \in AddPayloads(world) :
          req' = [req EXCEPT ![p] = add_validate(payload)]
    /\ started' = started + 1
    /\ pre' = Snapshot
    /\ UNCHANGED <<world, stores, acks, now, waiter, ack_log, history>>

\* Lines 53-70: the account config and the flow.
AddFetchUserConfig(p) ==
    /\ At(p, "add", "fetch_user_config")
    /\ \/ req' = [req EXCEPT ![p] = Raise(Called(@, "fetch_user_config", "raise"))]
       \/ \E cfg \in Configs(world) :
             LET r1 == [Called(req[p], "fetch_user_config", "ok") EXCEPT
                           !.cfg = cfg,
                           !.group = config_group(cfg),
                           !.sending_orders = config_sending_orders(cfg)]
                 flow == add_flow(r1.user_type, r1.sending_orders)
             IN  req' = [req EXCEPT ![p] =
                            IF flow = "unsupported"
                            THEN Return(r1, UnsupportedFlow(r1))
                            ELSE [r1 EXCEPT !.flow = flow, !.pc = "compute_half_spread"]]
    /\ UNCHANGED <<world, stores, acks, now, waiter, ack_log, history, pre, started>>

\* Lines 72-79 and 153-161: with the half spread known, the local flow goes
\* on to the upsert, the provider flow to the lifecycle id (when the payload
\* has one) or to the status mark.
add_after_half_spread(r, half_spread) ==
    IF r.flow = "local"
    THEN [r EXCEPT !.half_spread = half_spread,
                   !.score_tp = score_take_profit(r.side, r.tp_raw, half_spread),
                   !.pc = "upsert_order_triggers"]
    ELSE [r EXCEPT !.half_spread = half_spread,
                   !.provider_tp = provider_take_profit(r.side, r.tp_raw, half_spread),
                   !.pc = IF Truthy(r.payload, "takeprofit_id")
                          THEN "add_lifecycle_id" ELSE "mark_status"]

\* Line 72 (_compute_half_spread, lines 22-32): a failed lookup gives 0.0.
AddComputeHalfSpread(p) ==
    /\ At(p, "add", "compute_half_spread")
    /\ \/ req' = [req EXCEPT ![p] =
                    add_after_half_spread(Called(Forget(@), "fetch_group_data", "raise"), Num(0))]
       \/ req' = [req EXCEPT ![p] =
                    add_after_half_spread(Called(Forget(@), "fetch_group_data", "ok"),
                                          half_spread_of(world.gdata))]
    /\ UNCHANGED <<world, stores, acks, now, waiter, ack_log, history, pre, started>>

\* Lines 81-91: the row add_takeprofit upserts.
TriggerRow(r) ==
    [symbol |-> r.symbol, side |-> r.side, user_type |-> r.user_type,
     user_id |-> r.user_id, stop_loss |-> NoneV, take_profit |-> r.tp_raw,
     score_stop_loss |-> NoneV, score_take_profit |-> r.score_tp]

\* An upsert failure that is passed over like the failures after it.
add_upsert_ignored(r) == [r EXCEPT !.pc = "hset_order_data"]

\* Lines 92-93: what a False upsert makes of the request.
add_upsert_failed(r) ==
    Return(r, [ok |-> FALSE, reason |-> <<"upsert_triggers_failed">>])

\* Lines 81-93.
AddUpsertTriggers(p) ==
    /\ At(p, "add", "upsert_order_triggers")
    /\ \/ /\ triggers' = upsert_order_triggers(triggers, req[p].order_id, TriggerRow(req[p]))
          /\ req' = [req EXCEPT ![p] =
                        [Called(@, "upsert_order_triggers", "ok") EXCEPT !.pc = "hset_order_data"]]
       \/ /\ req' = [req EXCEPT ![p] =
                        add_upsert_failed(Called(@, "upsert_order_triggers", "false"))]
          /\ UNCHANGED triggers
       \/ /\ req' = [req EXCEPT ![p] = Raise(Called(@, "upsert_order_triggers", "raise"))]
          /\ UNCHANGED triggers
    /\ UNCHANGED <<world, order_data, user_holdings, registry, queue, gateway,
                   acks, now, waiter, ack_log, history, pre, started>>

\* Lines 97-103: the order_data mirror.
OrderDataMirror(r) ==
    ("symbol" :> r.symbol) @@ ("order_type" :> r.side) @@ ("user_type" :> r.user_type)
    @@ ("user_id" :> r.user_id) @@ ("take_profit" :> Str(r.tp_raw))

\* A mirror failure that leaves add_takeprofit as an exception.
add_mirror_raises(r) == Raise(r)

\* Lines 104-105: `except Exception: pass`, and on to the next mirror.
add_mirror_failed(r) == [r EXCEPT !.pc = "hset_user_holdings"]

\* Lines 95-105.
AddHsetOrderData(p) ==
    /\ At(p, "add", "hset_order_data")
    /\ \/ /\ order_data' = [order_data EXCEPT ![req[p].order_id] =
                                HSet(@, OrderDataMirror(req[p]))]
          /\ req' = [req EXCEPT ![p] =
                        [Called(@, "hset_order_data", "ok") EXCEPT !.pc = "hset_user_holdings"]]
       \/ /\ req' = [req EXCEPT ![p] =
                        add_mirror_failed(Called(@, "hset_order_data", "raise"))]
          /\ UNCHANGED order_data
    /\ UNCHANGED <<world, triggers, user_holdings, registry, queue, gateway,
                   acks, now, waiter, ack_log, history, pre, started>>

\* Lines 107-115.
AddHsetUserHoldings(p) ==
    /\ At(p, "add", "hset_user_holdings")
    /\ \/ /\ user_holdings' = [user_holdings EXCEPT ![HoldingKey(req[p])] =
                                  HSet(@, ("take_profit" :> Str(req[p].tp_raw)))]
          /\ req' = [req EXCEPT ![p] =
                        [Called(@, "hset_user_holdings", "ok") EXCEPT !.pc = "publish"]]
       \/ /\ req' = [req EXCEPT ![p] =
                        [Called(@, "hset_user_holdings", "raise") EXCEPT !.pc = "publish"]]
          /\ UNCHANGED user_holdings
    /\ UNCHANGED <<world, triggers, order_data, registry, queue, gateway,
                   acks, now, waiter, ack_log, history, pre, started>>

\* Lines 119-125: the DB update intent.
TakeprofitSetMsg(r) ==
    [type |-> "ORDER_TAKEPROFIT_SET", order_id |-> r.order_id, user_id |-> r.user_id,
     user_type |-> r.user_type, take_profit |-> r.tp_raw]

\* Lines 143-151.
add_local_result(r) ==
    [ok |-> TRUE, flow |-> r.flow, order_id |-> r.order_id, symbol |-> r.symbol,
     order_type |-> r.side, take_profit |-> r.tp_raw, score_take_profit |-> r.score_tp]

\* Lines 117-151: publish (any failure on the way is logged), then return.
AddPublish(p) ==
    /\ At(p, "add", "publish")
    /\ \/ /\ queue' = Append(queue, TakeprofitSetMsg(req[p]))
          /\ req' = [req EXCEPT ![p] =
                        Return(Called(@, "publish", "ok"), add_local_result(@))]
       \/ /\ req' = [req EXCEPT ![p] =
                        Return(Called(@, "publish", "raise"), add_local_result(@))]
          /\ UNCHANGED queue
    /\ UNCHANGED <<world, triggers, order_data, user_holdings, registry, gateway,
                   acks, now, waiter, ack_log, history, pre, started>>

(***************************************************************************)
(* add_takeprofit, provider flow (lines 153-239).                          *)
(***************************************************************************)
\* The channels send_provider_order reports.
Channels == {"uds", "tcp"}

\* add_lifecycle_id(order_id, external_id, kind) when it returns.
add_lifecycle_id(reg, order_id, external_id, kind) ==
    reg \cup {<<order_id, external_id, kind>>}

\* A lifecycle-id failure that leaves add_takeprofit as an exception.
add_lifecycle_raises(r) == Raise(r)

\* Lines 164-165: the failure is logged, and the status mark follows.
add_lifecycle_failed(r) == [r EXCEPT !.pc = "mark_status"]

\* Lines 160-165.
AddLifecycleId(p) ==
    /\ At(p, "add", "add_lifecycle_id")
    /\ \/ /\ registry' = add_lifecycle_id(registry, req[p].order_id,
                                          req[p].payload["takeprofit_id"], "takeprofit_id")
          /\ req' = [req EXCEPT ![p] =
                        [Called(@, "add_lifecycle_id", "ok") EXCEPT !.pc = "mark_status"]]
       \/ /\ req' = [req EXCEPT ![p] =
                        add_lifecycle_failed(Called(@, "add_lifecycle_id", "raise"))]
          /\ UNCHANGED registry
    /\ UNCHANGED <<world, triggers, order_data, user_holdings, queue, gateway,
                   acks, now, waiter, ack_log, history, pre, started>>

\* A mark that reaches order_data only.
AddMarkCmds_order_data_only(r) ==
    << HSetCmd("order_data", r.order_id,
               ("status" :> "TAKEPROFIT") @@ ("symbol" :> r.symbol) @@ ("order_type" :> r.side)) >>

\* Lines 172-174: the pipeline that marks status=TAKEPROFIT.
AddMarkCmds(r) ==
    << HSetCmd("order_data", r.order_id,
               ("status" :> "TAKEPROFIT") @@ ("symbol" :> r.symbol) @@ ("order_type" :> r.side)),
       HSetCmd("user_holdings", HoldingKey(r), ("status" :> "TAKEPROFIT")) >>

\* Lines 179-184 and 194-195: quantity and entry price from the payload; the
\* order_data read is made only when one of them is missing.
add_after_mark(r) ==
    LET qty == safe_float(Get(r.payload, "order_quantity"))
        entry_price == safe_float(Get(r.payload, "order_price"))
    IN  [r EXCEPT !.qty = qty, !.entry_price = entry_price,
                  !.pc = IF qty = NoneV \/ entry_price = NoneV
                         THEN "hgetall_order_data" ELSE "fetch_contract_size"]

\* Lines 167-177.
AddMarkStatus(p) ==
    /\ At(p, "add", "mark_status")
    /\ \E o \in PipelineOutcomes(AddMarkCmds(req[p])) :
          /\ PipelineExecute(AddMarkCmds(req[p]), o)
          /\ req' = [req EXCEPT ![p] = add_after_mark(Called(@, "mark_status", o.out))]
    /\ UNCHANGED <<world, triggers, registry, queue, gateway, acks, now, waiter, ack_log, history, pre, started>>

\* `_safe_float(x) or 1.0`: None and 0.0 are falsy.
FOrOne(a) == IF a = NoneV \/ a = Num(0) THEN Num(1) ELSE a

\* Lines 196-199: a cached contract_value is used as it is, and only without
\* one is the contract size fetched.
add_after_hgetall(r, cv_existing) ==
    IF cv_existing # NoneV
    THEN [r EXCEPT !.cv_existing = cv_existing, !.contract_value = cv_existing,
                   !.pc = "send_provider_order"]
    ELSE [r EXCEPT !.pc = "fetch_contract_size"]

\* Lines 185-193.
AddHgetallOrderData(p) ==
    /\ At(p, "add", "hgetall_order_data")
    /\ \/ LET od == order_data[req[p].order_id]
              r1 == Called(req[p], "hgetall_order_data", "ok")
              r2 == [r1 EXCEPT
                        !.qty = IF @ = NoneV THEN safe_float(Get(od, "order_quantity")) ELSE @,
                        !.entry_price = IF @ = NoneV THEN safe_float(Get(od, "order_price")) ELSE @]
          IN  req' = [req EXCEPT ![p] =
                        add_after_hgetall(r2, IF od # <<>>
                                              THEN safe_float(Get(od, "contract_value"))
                                              ELSE NoneV)]
       \/ req' = [req EXCEPT ![p] =
                    add_after_hgetall(Called(@, "hgetall_order_data", "raise"), NoneV)]
    /\ UNCHANGED <<world, stores, acks, now, waiter, ack_log, history, pre, started>>

\* Lines 201-206 on the dict fetch_group_data returned.
contract_value_of(g, qty, entry_price) ==
    LET contract_size == FOrOne(safe_float(Get(g, "contract_size")))
    IN  IF qty # NoneV /\ entry_price # NoneV
        THEN FMul(FMul(contract_size, qty), entry_price)
        ELSE NoneV

\* Lines 197-208, without a cached contract_value.
AddFetchContractSize(p) ==
    /\ At(p, "add", "fetch_contract_size")
    /\ \/ req' = [req EXCEPT ![p] =
                    [Called(@, "fetch_group_data", "ok") EXCEPT
                        !.contract_value =
                            contract_value_of(world.gdata, req[p].qty, req[p].entry_price),
                        !.pc = "send_provider_order"]]
       \/ req' = [req EXCEPT ![p] =
                    [Called(@, "fetch_group_data", "raise") EXCEPT
                        !.contract_value = NoneV, !.pc = "send_provider_order"]]
    /\ UNCHANGED <<world, stores, acks, now, waiter, ack_log, history, pre, started>>

\* Lines 210-225: the payload for the gateway.
AddProviderPayload(r) ==
    (IF r.contract_value # NoneV THEN ("contract_value" :> r.contract_value) ELSE <<>>)
    @@ (IF r.qty # NoneV THEN ("order_quantity" :> r.qty) ELSE <<>>)
    @@ (IF Truthy(r.payload, "takeprofit_id")
        THEN ("takeprofit_id" :> r.payload["takeprofit_id"]) ELSE <<>>)
    @@ [order_id |-> r.order_id, symbol |-> r.symbol,
        order_status |-> GetOr(r.payload, "order_status", "OPEN"),
        status |-> "TAKEPROFIT", order_type |-> r.side,
        takeprofit |-> r.provider_tp, type |-> "order"]

\* Lines 228-229 and 350-351: the f-string "provider_send_failed:{via}".
provider_send_failed(r, via) ==
    Return(r, [ok |-> FALSE, reason |-> <<"provider_send_failed:", via>>])

\* Lines 231-239.
add_provider_result(r) ==
    [ok |-> TRUE, flow |-> r.flow, order_id |-> r.order_id, symbol |-> r.symbol,
     order_type |-> r.side, take_profit_sent |-> r.provider_tp,
     note |-> "Takeprofit sent to provider; confirmation handled asynchronously"]

\* A send after which add_takeprofit waits for the provider's ack.
add_after_send_waits(r) == [r EXCEPT !.pc = "wait_for_provider_ack"]

\* Line 231: what add_takeprofit does once the gateway has accepted the
\* payload.
add_after_send(r) == Return(r, add_provider_result(r))

\* Lines 227-239.
AddSendProviderOrder(p) ==
    /\ At(p, "add", "send_provider_order")
    /\ \/ \E via \in Channels :
             /\ gateway' = Append(gateway, AddProviderPayload(req[p]))
             /\ req' = [req EXCEPT ![p] =
                           add_after_send(CalledWith(@, "send_provider_order", "ok", via))]
       \/ \E via \in Channels :
             /\ req' = [req EXCEPT ![p] =
                           provider_send_failed(
                               CalledWith(@, "send_provider_order", "false", via), via)]
             /\ UNCHANGED gateway
       \/ /\ req' = [req EXCEPT ![p] = Raise(Called(@, "send_provider_order", "raise"))]
          /\ UNCHANGED gateway
    /\ UNCHANGED <<world, triggers, order_data, user_holdings, registry, queue,
                   acks, now, waiter, ack_log, history, pre, started>>

(***************************************************************************)
(* cancel_takeprofit, step by step.                                        *)
(***************************************************************************)
\* Lines 241-252.
CancelBegin(p) ==
    /\ req[p].pc = "idle"
    /\ started < MaxRequests
    /\ \E payload \in CancelPayloads(world) :
          req' = [req EXCEPT ![p] = cancel_validate(payload)]
    /\ started' = started + 1
    /\ pre' = Snapshot
    /\ UNCHANGED <<world, stores, acks, now, waiter, ack_log, history>>

\* A provider flow that marks the routing status before it sends.
cancel_after_flow_marks_first(r, flow) ==
    IF flow = "local"
    THEN [r EXCEPT !.flow = flow, !.pc = "remove_takeprofit_trigger"]
    ELSE [r EXCEPT !.flow = flow,
                   !.takeprofit_cancel_id =
                       Strip(GetOr(r.payload, "takeprofit_cancel_id", "")),
                   !.pc = "mark_status"]

\* Lines 273 and 324-325: the local flow goes on to the trigger removal, the
\* provider flow to the lifecycle id (when the payload has a cancel id) or to
\* the gateway.
cancel_after_flow(r, flow) ==
    LET takeprofit_cancel_id == Strip(GetOr(r.payload, "takeprofit_cancel_id", ""))
    IN  IF flow = "local"
        THEN [r EXCEPT !.flow = flow, !.pc = "remove_takeprofit_trigger"]
        ELSE [r EXCEPT !.flow = flow, !.takeprofit_cancel_id = takeprofit_cancel_id,
                       !.pc = IF takeprofit_cancel_id # ""
                              THEN "add_lifecycle_id" ELSE "send_provider_order"]

\* Lines 254-271.
CancelFetchUserConfig(p) ==
    /\ At(p, "cancel", "fetch_user_config")
    /\ \/ req' = [req EXCEPT ![p] = Raise(Called(@, "fetch_user_config", "raise"))]
       \/ \E cfg \in Configs(world) :
             LET r1 == [Called(req[p], "fetch_user_config", "ok") EXCEPT
                           !.cfg = cfg,
                           !.group = config_group(cfg),
                           !.sending_orders = config_sending_orders(cfg)]
                 flow == cancel_flow(r1.user_type, r1.sending_orders)
             IN  req' = [req EXCEPT ![p] =
                            IF flow = "unsupported"
                            THEN Return(r1, UnsupportedFlow(r1))
                            ELSE cancel_after_flow(r1, flow)]
    /\ UNCHANGED <<world, stores, acks, now, waiter, ack_log, history, pre, started>>

\* A trigger-removal failure that leaves cancel_takeprofit as an exception.
cancel_remove_raises(r) == Raise(r)

\* Lines 276-277: `except Exception: pass`, and on to the caches.
cancel_remove_failed(r) == [r EXCEPT !.pc = "clear_caches"]

\* Lines 274-277.
CancelRemoveTrigger(p) ==
    /\ At(p, "cancel", "remove_takeprofit_trigger")
    /\ \/ /\ triggers' = remove_takeprofit_trigger(triggers, req[p].order_id)
          /\ req' = [req EXCEPT ![p] =
                        [Called(Forget(@), "remove_takeprofit_trigger", "ok") EXCEPT !.pc = "clear_caches"]]
       \/ /\ req' = [req EXCEPT ![p] =
                        cancel_remove_failed(Called(Forget(@), "remove_takeprofit_trigger", "raise"))]
          /\ UNCHANGED triggers
    /\ UNCHANGED <<world, order_data, user_holdings, registry, queue, gateway,
                   acks, now, waiter, ack_log, history, pre, started>>

\* A clearing pipeline that forgets the user_holdings take_profit.
CancelClearCmds_order_data_only(r) ==
    << HDelCmd("order_data", r.order_id, "take_profit"),
       HSetCmd("order_data", r.order_id,
               ("status" :> "OPEN") @@ ("symbol" :> r.symbol) @@ ("order_type" :> r.side)),
       HSetCmd("user_holdings", HoldingKey(r), ("status" :> "OPEN")) >>

\* Lines 282-286: the pipeline that clears take_profit and sets status=OPEN.
CancelClearCmds(r) ==
    << HDelCmd("order_data", r.order_id, "take_profit"),
       HDelCmd("user_holdings", HoldingKey(r), "take_profit"),
       HSetCmd("order_data", r.order_id,
               ("status" :> "OPEN") @@ ("symbol" :> r.symbol) @@ ("order_type" :> r.side)),
       HSetCmd("user_holdings", HoldingKey(r), ("status" :> "OPEN")) >>

\* After the pipeline, whatever became of it: line 291.
cancel_after_clear(r) == [r EXCEPT !.pc = "publish"]

\* Lines 278-289.
CancelClearCaches(p) ==
    /\ At(p, "cancel", "clear_caches")
    /\ \E o \in PipelineOutcomes(CancelClearCmds(req[p])) :
          /\ PipelineExecute(CancelClearCmds(req[p]), o)
          /\ req' = [req EXCEPT ![p] = cancel_after_clear(Called(@, "clear_caches", o.out))]
    /\ UNCHANGED <<world, triggers, registry, queue, gateway, acks, now, waiter, ack_log, history, pre, started>>

\* Lines 295-300.
TakeprofitCancelMsg(r) ==
    [type |-> "ORDER_TAKEPROFIT_CANCEL", order_id |-> r.order_id, user_id |-> r.user_id,
     user_type |-> r.user_type]

\* Lines 315-322.
cancel_local_result(r) ==
    [ok |-> TRUE, flow |-> r.flow, order_id |-> r.order_id, symbol |-> r.symbol,
     order_type |-> r.side, note |-> "Takeprofit cancelled locally"]

\* Lines 291-322.
CancelPublish(p) ==
    /\ At(p, "cancel", "publish")
    /\ \/ /\ queue' = Append(queue, TakeprofitCancelMsg(req[p]))
          /\ req' = [req EXCEPT ![p] =
                        Return(Called(@, "publish", "ok"), cancel_local_result(@))]
       \/ /\ req' = [req EXCEPT ![p] =
                        Return(Called(@, "publish", "raise"), cancel_local_result(@))]
          /\ UNCHANGED queue
    /\ UNCHANGED <<world, triggers, order_data, user_holdings, registry, gateway,
                   acks, now, waiter, ack_log, history, pre, started>>

(***************************************************************************)
(* cancel_takeprofit, provider flow (lines 324-393).                       *)
(***************************************************************************)
\* Lines 325-329.
CancelLifecycleId(p) ==
    /\ At(p, "cancel", "add_lifecycle_id")
    /\ \/ /\ registry' = add_lifecycle_id(registry, req[p].order_id,
                                          req[p].takeprofit_cancel_id, "takeprofit_cancel_id")
          /\ req' = [req EXCEPT ![p] =
                        [Called(Forget(@), "add_lifecycle_id", "ok") EXCEPT !.pc = "send_provider_order"]]
       \/ /\ req' = [req EXCEPT ![p] =
                        [Called(Forget(@), "add_lifecycle_id", "raise") EXCEPT !.pc = "send_provider_order"]]
          /\ UNCHANGED registry
    /\ UNCHANGED <<world, triggers, order_data, user_holdings, queue, gateway,
                   acks, now, waiter, ack_log, history, pre, started>>

\* Lines 332-343: the cancel payload for the gateway.
CancelProviderPayload(r) ==
    (IF r.takeprofit_cancel_id # ""
     THEN ("take_profit_cancel_id" :> r.takeprofit_cancel_id) ELSE <<>>)
    @@ [order_id |-> r.order_id, symbol |-> r.symbol, order_type |-> r.side,
        takeprofit_id |-> Strip(GetOr(r.payload, "takeprofit_id", "")),
        takeprofit_cancel_id |-> r.takeprofit_cancel_id,
        status |-> "TAKEPROFIT-CANCEL", type |-> "order"]

\* Line 352: what cancel_takeprofit does once the gateway has accepted the
\* cancel.
cancel_after_send(r) == [r EXCEPT !.pc = "mark_status"]

\* Lines 349-352.
CancelSendProviderOrder(p) ==
    /\ At(p, "cancel", "send_provider_order")
    /\ \/ \E via \in Channels :
             /\ gateway' = Append(gateway, CancelProviderPayload(req[p]))
             /\ req' = [req EXCEPT ![p] =
                           cancel_after_send(CalledWith(Forget(@), "send_provider_order", "ok", via))]
       \/ \E via \in Channels :
             /\ req' = [req EXCEPT ![p] =
                           provider_send_failed(
                               CalledWith(Forget(@), "send_provider_order", "false", via), via)]
             /\ UNCHANGED gateway
       \/ /\ req' = [req EXCEPT ![p] = Raise(Called(Forget(@), "send_provider_order", "raise"))]
          /\ UNCHANGED gateway
    /\ UNCHANGED <<world, triggers, order_data, user_holdings, registry, queue,
                   acks, now, waiter, ack_log, history, pre, started>>

\* Lines 363-365: the pipeline that marks status=TAKEPROFIT-CANCEL.
CancelMarkCmds(r) ==
    << HSetCmd("order_data", r.order_id,
               ("status" :> "TAKEPROFIT-CANCEL") @@ ("symbol" :> r.symbol)
               @@ ("order_type" :> r.side)
               @@ ("takeprofit_cancel_id" :> r.takeprofit_cancel_id)),
       HSetCmd("user_holdings", HoldingKey(r), ("status" :> "TAKEPROFIT-CANCEL")) >>

\* Line 366 returned: the read-back of lines 370-377 follows.
cancel_after_mark(r) == [r EXCEPT !.pc = "verify_status"]

\* Lines 379-382: the pipeline raised.
cancel_mark_failed(r) ==
    Return(r, [ok |-> FALSE, reason |-> <<"redis_status_update_failed">>,
               error |-> "pipeline error"])

\* Lines 354-366 and 379-382.
CancelMarkStatus(p) ==
    /\ At(p, "cancel", "mark_status")
    /\ \E o \in PipelineOutcomes(CancelMarkCmds(req[p])) :
          /\ PipelineExecute(CancelMarkCmds(req[p]), o)
          /\ req' = [req EXCEPT ![p] =
                        IF o.out = "ok"
                        THEN cancel_after_mark(Called(@, "mark_status", "ok"))
                        ELSE cancel_mark_failed(Called(@, "mark_status", "raise"))]
    /\ UNCHANGED <<world, triggers, registry, queue, gateway, acks, now, waiter, ack_log, history, pre, started>>

\* Lines 385-393.
cancel_provider_result(r) ==
    [ok |-> TRUE, flow |-> r.flow, order_id |-> r.order_id, symbol |-> r.symbol,
     order_type |-> r.side, provider_cancel_sent |-> TRUE,
     note |-> "Takeprofit cancel sent to provider; will be finalized on confirmation"]

\* A read-back whose mismatch (or failure) fails the cancel.
cancel_after_verify_checked(r) ==
    LET last == r.trace[Len(r.trace)]
    IN  IF last.out = "ok" /\ last.value = "TAKEPROFIT-CANCEL"
        THEN Return(r, cancel_provider_result(r))
        ELSE Return(r, [ok |-> FALSE, reason |-> <<"redis_status_update_failed">>,
                        error |-> "verification"])

\* Lines 374-377 and 384-393: whatever the read-back gave, or if it raised,
\* the result is the same.
cancel_after_verify(r) == Return(r, cancel_provider_result(r))

\* What hget(order_data_key, "status") may return: the status the hash
\* holds, or the one another client of the cache wrote in between.
NoStatus == "(nil)"

StatusOf(h) == IF "status" \in DOMAIN h THEN h["status"] ELSE NoStatus

OtherWriters == {"OPEN", "CLOSED"}

\* Lines 370-393.
CancelVerifyStatus(p) ==
    /\ At(p, "cancel", "verify_status")
    /\ \/ \E verification \in {StatusOf(order_data[req[p].order_id])} \cup OtherWriters :
             req' = [req EXCEPT ![p] =
                        cancel_after_verify(CalledWith(@, "hget_status", "ok", verification))]
       \/ req' = [req EXCEPT ![p] = cancel_after_verify(Called(@, "hget_status", "raise"))]
    /\ UNCHANGED <<world, stores, acks, now, waiter, ack_log, history, pre, started>>

(***************************************************************************)
(* The caller has the result (or the exception): the task is free again.   *)
(***************************************************************************)
Complete(p) ==
    /\ req[p].pc \in {"done", "raised"}
    /\ req' = [req EXCEPT ![p] = Idle]
    /\ pre' = Snapshot
    /\ UNCHANGED <<world, stores, acks, now, waiter, ack_log, history, started>>

(***************************************************************************)
(* One task at a time runs requests, one after the other.                  *)
(***************************************************************************)
Step(p) ==
    \/ AddBegin(p)
    \/ AddFetchUserConfig(p)
    \/ AddComputeHalfSpread(p)
    \/ AddUpsertTriggers(p)
    \/ AddHsetOrderData(p)
    \/ AddHsetUserHoldings(p)
    \/ AddPublish(p)
    \/ AddLifecycleId(p)
    \/ AddMarkStatus(p)
    \/ AddHgetallOrderData(p)
    \/ AddFetchContractSize(p)
    \/ AddSendProviderOrder(p)
    \/ CancelBegin(p)
    \/ CancelFetchUserConfig(p)
    \/ CancelRemoveTrigger(p)
    \/ CancelClearCaches(p)
    \/ CancelPublish(p)
    \/ CancelLifecycleId(p)
    \/ CancelSendProviderOrder(p)
    \/ CancelMarkStatus(p)
    \/ CancelVerifyStatus(p)
    \/ Complete(p)

Next == Step(1)

Spec == Init /\ [][Next]_vars

(***************************************************************************)
(* The add-then-cancel scenario: one add_takeprofit, and when it has       *)
(* returned, one cancel_takeprofit for the order id the add was given.     *)
(***************************************************************************)
AddFirst(p) ==
    /\ started = 0
    /\ AddBegin(p)

\* Lines 241-252, called with the add's result in hand; the add is
\* remembered as it ended.
CancelAfterAdd(p) ==
    /\ At(p, "add", "done")
    /\ history = <<>>
    /\ "order_id" \in DOMAIN req[p].payload
    /\ \E payload \in CancelPayloads(world) :
          /\ "order_id" \in DOMAIN payload
          /\ payload["order_id"] = req[p].payload["order_id"]
          /\ req' = [req EXCEPT ![p] = cancel_validate(payload)]
    /\ history' = <<req[p]>>
    /\ started' = started + 1
    /\ pre' = Snapshot
    /\ UNCHANGED <<world, stores, acks, now, waiter, ack_log>>

NextAddCancel ==
    \/ AddFirst(1)
    \/ AddFetchUserConfig(1)
    \/ AddComputeHalfSpread(1)
    \/ AddUpsertTriggers(1)
    \/ AddHsetOrderData(1)
    \/ AddHsetUserHoldings(1)
    \/ AddPublish(1)
    \/ AddLifecycleId(1)
    \/ AddMarkStatus(1)
    \/ AddHgetallOrderData(1)
    \/ AddFetchContractSize(1)
    \/ AddSendProviderOrder(1)
    \/ CancelAfterAdd(1)
    \/ CancelFetchUserConfig(1)
    \/ CancelRemoveTrigger(1)
    \/ CancelClearCaches(1)
    \/ CancelPublish(1)
    \/ CancelLifecycleId(1)
    \/ CancelSendProviderOrder(1)
    \/ CancelMarkStatus(1)
    \/ CancelVerifyStatus(1)
    \/ Complete(1)

SpecAddCancel == Init /\ [][NextAddCancel]_vars

(***************************************************************************)
(* Two tasks, one request each, their steps interleaved at the awaits.     *)
(***************************************************************************)
\* The order each task's request is for.
OrderOf == (1 :> "A") @@ (2 :> "B")

\* Lines 36-50, for a payload that names the order.
AddBeginFor(p, order_id) ==
    /\ req[p].pc = "idle"
    /\ req' = [req EXCEPT ![p] =
                  add_validate([BasePayload(world) EXCEPT !["order_id"] = order_id])]
    /\ started' = started + 1
    /\ pre' = Snapshot
    /\ UNCHANGED <<world, stores, acks, now, waiter, ack_log, history>>

\* Lines 241-252, for a payload that names the order, with or without a
\* takeprofit_cancel_id.
CancelBeginFor(p, order_id) ==
    /\ req[p].pc = "idle"
    /\ \E payload \in PayloadsOptional(world, {}, CancelOptional) :
          req' = [req EXCEPT ![p] =
                     cancel_validate([payload EXCEPT !["order_id"] = order_id])]
    /\ started' = started + 1
    /\ pre' = Snapshot
    /\ UNCHANGED <<world, stores, acks, now, waiter, ack_log, history>>

StepDistinct(p) ==
    \/ AddBeginFor(p, OrderOf[p])
    \/ AddFetchUserConfig(p)
    \/ AddComputeHalfSpread(p)
    \/ AddUpsertTriggers(p)
    \/ AddHsetOrderData(p)
    \/ AddHsetUserHoldings(p)
    \/ AddPublish(p)
    \/ AddLifecycleId(p)
    \/ AddMarkStatus(p)
    \/ AddHgetallOrderData(p)
    \/ AddFetchContractSize(p)
    \/ AddSendProviderOrder(p)
    \/ CancelBeginFor(p, OrderOf[p])
    \/ CancelFetchUserConfig(p)
    \/ CancelRemoveTrigger(p)
    \/ CancelClearCaches(p)
    \/ CancelPublish(p)
    \/ CancelLifecycleId(p)
    \/ CancelSendProviderOrder(p)
    \/ CancelMarkStatus(p)
    \/ CancelVerifyStatus(p)

InitDistinct == Init /\ world = BaseWorld

NextDistinct == \E p \in Procs : StepDistinct(p)

SpecDistinct == InitDistinct /\ [][NextDistinct]_vars

(***************************************************************************)
(* A local add_takeprofit and a local cancel_takeprofit of the same order, *)
(* interleaved, every collaborator call succeeding.                        *)
(***************************************************************************)
\* Every call the request has made returned.
AllOk(r) == \A i \in DOMAIN r.trace : r.trace[i].out = "ok"

\* A demo account: every request takes the local flow.
InitRace == Init /\ world = [BaseWorld EXCEPT !.account = "demo"]

NextRace ==
    \/ AddBeginFor(1, "A")
    \/ AddFetchUserConfig(1) /\ AllOk(req'[1])
    \/ AddComputeHalfSpread(1) /\ AllOk(req'[1])
    \/ AddUpsertTriggers(1) /\ AllOk(req'[1])
    \/ AddHsetOrderData(1) /\ AllOk(req'[1])
    \/ AddHsetUserHoldings(1) /\ AllOk(req'[1])
    \/ AddPublish(1) /\ AllOk(req'[1])
    \/ CancelBeginFor(2, "A")
    \/ CancelFetchUserConfig(2) /\ AllOk(req'[2])
    \/ CancelRemoveTrigger(2) /\ AllOk(req'[2])
    \/ CancelClearCaches(2) /\ AllOk(req'[2])
    \/ CancelPublish(2) /\ AllOk(req'[2])

SpecRace == InitRace /\ [][NextRace]_vars

(***************************************************************************)
(* _wait_for_provider_ack, lines 396-419.  One call is followed from its   *)
(* first line to its return; each evaluation of the loop test, each        *)
(* redis get and each sleep is a step.  The clock only moves forward, and  *)
(* the acknowledgment consumer writes provider:ack:<id> whenever it likes. *)
(***************************************************************************)
\* asyncio.sleep(0.1), in milliseconds.
SleepMs == 100

\* The clock stops here.
MaxNow == 300

\* The writes the acknowledgment consumer makes in a behaviour.
MaxAckWrites == 1

\* What the clock advances by in one step.
Elapses == {100}

AckIds == {"T1", "C1"}

TimeoutsMs == {0 - 100, 0, 50, 200}

\* expected_statuses: the default, a caller's own pair, and None or ().
ExpectedStatuses == {<<"CANCELLED">>, <<"Rejected", "cancelled">>, <<>>}

\* What redis get returns: nothing for an absent key, else the bytes, which
\* are empty, no JSON, a JSON list, or a JSON object.
Nil == [kind |-> "nil"]

AckRecord(data) == [kind |-> "json", data |-> data]

AckValues ==
    { [kind |-> "empty"], [kind |-> "text"], [kind |-> "list"],
      AckRecord(<<>>),
      AckRecord("ord_status" :> "cancelled"),
      AckRecord("ord_status" :> "Rejected"),
      AckRecord("ord_status" :> "FILLED") }

\* A key that is always the same one.
ack_key_fixed(any_id) == <<"provider:ack:", "T1">>

\* Line 399.
ack_key(any_id) == <<"provider:ack:", any_id>>

\* Line 400.
expect_of(expected_statuses) ==
    {Upper(expected_statuses[i]) : i \in DOMAIN expected_statuses}

\* A loop test that lets the deadline itself in.
wait_loop_inclusive(t, deadline) == t <= deadline

\* Line 401: the loop test.
wait_loop(t, deadline) == t < deadline

\* Line 404: `if raw`.
raw_truthy(raw) == raw.kind \notin {"nil", "empty"}

\* Line 409: (data or {}).get raises when data is a list.
get_raises(raw) == raw.kind = "list"

\* A status compared as it is written.
ord_status_of_as_written(raw) ==
    IF raw.kind = "json" THEN GetOr(raw.data, "ord_status", "") ELSE ""

\* Lines 405-409: orjson.loads, None for what is no JSON, and
\* str((data or {}).get("ord_status") or "").upper().
ord_status_of(raw) ==
    IF raw.kind = "json" THEN Upper(GetOr(raw.data, "ord_status", "")) ELSE ""

\* Lines 414-418: the sleep before the next test.
wait_sleep(w) == [w EXCEPT !.pc = "sleep", !.wake = now + SleepMs]

\* Lines 404-413: what the waiter does with what its get returned.
wait_after_get(w, raw) ==
    IF raw_truthy(raw) /\ ~get_raises(raw) /\ ord_status_of(raw) \in w.expect
    THEN [w EXCEPT !.pc = "done", !.result = Str(ord_status_of(raw))]
    ELSE wait_sleep(w)

Polled(w, out, raw) ==
    [w EXCEPT !.polls = Append(@, [out |-> out, raw |-> raw])]

\* Lines 396-400.
WaitBegin(any_id, expected_statuses, timeout_ms) ==
    /\ waiter.pc = "idle"
    /\ waiter' = [NotWaiting EXCEPT !.pc = "test",
                                    !.any_id = any_id,
                                    !.timeout_ms = timeout_ms,
                                    !.deadline = now + timeout_ms,
                                    !.key = ack_key(any_id),
                                    !.expect = expect_of(expected_statuses)]
    /\ UNCHANGED <<world, stores, acks, now, ack_log, history, req, pre, started>>

\* Lines 401 and 419.
WaitTest ==
    /\ waiter.pc = "test"
    /\ waiter' = IF wait_loop(now, waiter.deadline)
                 THEN [waiter EXCEPT !.pc = "get"]
                 ELSE [waiter EXCEPT !.pc = "done", !.result = NoneV]
    /\ UNCHANGED <<world, stores, acks, now, ack_log, history, req, pre, started>>

\* Lines 402-413: the get raises, or returns what the key holds.
WaitGet ==
    /\ waiter.pc = "get"
    /\ \/ waiter' = wait_sleep(Polled(waiter, "raise", Nil))
       \/ LET raw == IF waiter.key \in DOMAIN acks THEN acks[waiter.key] ELSE Nil
          IN  waiter' = wait_after_get(Polled(waiter, "ok", raw), raw)
    /\ UNCHANGED <<world, stores, acks, now, ack_log, history, req, pre, started>>

\* Lines 414-418: the sleep returns once its time has passed.
WaitSleep ==
    /\ waiter.pc = "sleep"
    /\ now >= waiter.wake
    /\ waiter' = [waiter EXCEPT !.pc = "test"]
    /\ UNCHANGED <<world, stores, acks, now, ack_log, history, req, pre, started>>

\* time.time() moves on while the call is suspended in its get or its
\* sleep; the lines between two awaits take no time.
TimePasses ==
    /\ waiter.pc \in {"get", "sleep"}
    /\ now < MaxNow
    /\ \E d \in Elapses : now' = now + d
    /\ UNCHANGED <<world, stores, acks, waiter, ack_log, history, req, pre, started>>

\* The acknowledgment consumer sets provider:ack:<id>, before the call or
\* while it is under way.
AckWrite ==
    /\ waiter.pc # "done"
    /\ Len(ack_log) < MaxAckWrites
    /\ \E id \in AckIds, raw \in AckValues :
          /\ acks' = (<<"provider:ack:", id>> :> raw) @@ acks
          /\ ack_log' = Append(ack_log, [key |-> <<"provider:ack:", id>>, raw |-> raw,
                                         at |-> now, polls |-> Len(waiter.polls)])
    /\ UNCHANGED <<world, stores, now, waiter, history, req, pre, started>>

InitWaiter == Init /\ world = BaseWorld

NextWaiter ==
    \/ \E any_id \in AckIds, expected_statuses \in ExpectedStatuses,
          timeout_ms \in TimeoutsMs :
          WaitBegin(any_id, expected_statuses, timeout_ms)
    \/ WaitTest
    \/ WaitGet
    \/ WaitSleep
    \/ TimePasses
    \/ AckWrite

SpecWaiter == InitWaiter /\ [][NextWaiter]_vars

(***************************************************************************)
(* What the properties below read off a request.                           *)
(***************************************************************************)
\* The reason of a failure result; <<>> for a request without one.
Reason(r) ==
    IF r.pc = "done" /\ "reason" \in DOMAIN r.result THEN r.result.reason ELSE <<>>

\* The collaborator calls a request has made, in order.
CallNames(r) == [i \in DOMAIN r.trace |-> r.trace[i].call]

Has(r, name, out) ==
    \E i \in DOMAIN r.trace : r.trace[i].call = name /\ r.trace[i].out = out

Attempted(r, name) == \E i \in DOMAIN r.trace : r.trace[i].call = name

LastCall(r) == r.trace[Len(r.trace)]

\* The request has just had its account config read.
FlowJustResolved(r) ==
    /\ r.op \in {"add", "cancel"}
    /\ Len(r.trace) = 1
    /\ r.trace[1] = Call("fetch_user_config", "ok")

(***************************************************************************)
(* The flow decision table, on the account type and the stored config.     *)
(***************************************************************************)
PrefersRock(cfg) ==
    "sending_orders" \in DOMAIN cfg /\ cfg["sending_orders"] \in {"rock", " Rock "}

PrefersBarclays(cfg) ==
    "sending_orders" \in DOMAIN cfg /\ cfg["sending_orders"] \in {"barclays", "BARCLAYS"}

NormalisedPreference(cfg) ==
    IF PrefersRock(cfg) THEN "rock"
    ELSE IF PrefersBarclays(cfg) THEN "barclays"
    ELSE IF "sending_orders" \in DOMAIN cfg THEN cfg["sending_orders"]
    ELSE ""

DecisionTable(user_type, cfg) ==
    IF user_type = "demo" THEN "local"
    ELSE IF user_type = "live"
    THEN IF PrefersRock(cfg) THEN "local"
         ELSE IF PrefersBarclays(cfg) THEN "provider"
         ELSE "unsupported"
    ELSE IF user_type \in {"strategy_provider", "copy_follower"}
    THEN IF PrefersRock(cfg) THEN "local" ELSE "provider"
    ELSE "unsupported"

\* C1: for every account type and sending_orders preference, add_takeprofit
\* and cancel_takeprofit resolve the flow as the decision table says (the
\* preference compared trimmed and lower-cased), the same in both, and an
\* unsupported pair fails with unsupported_flow carrying the pair.
C1_FlowDecisionTable ==
    \A p \in Procs :
        LET r == req[p]
            expected == DecisionTable(r.user_type, r.cfg)
        IN  FlowJustResolved(r) =>
                IF expected = "unsupported"
                THEN /\ r.pc = "done"
                     /\ r.flow = Unset
                     /\ r.result =
                          [ok |-> FALSE, reason |-> <<"unsupported_flow">>,
                           details |-> [user_type |-> r.user_type,
                                        sending_orders |-> NormalisedPreference(r.cfg)]]
                ELSE /\ r.flow = expected
                     /\ r.pc \notin {"done", "raised"}

\* A live account whose stored preference is " Rock " has been sent the
\* local way by add_takeprofit.
C1_Witness ==
    \E p \in Procs :
        /\ FlowJustResolved(req[p])
        /\ req[p].op = "add"
        /\ req[p].user_type = "live"
        /\ req[p].cfg = ("sending_orders" :> " Rock ")
        /\ req[p].flow = "local"

(***************************************************************************)
(* Validation.                                                             *)
(***************************************************************************)
ValidationReasons ==
    {<<"missing_fields">>, <<"invalid_order_type">>, <<"invalid_take_profit">>}

Required(op) == IF op = "add" THEN AddRequired ELSE CancelRequired

PositiveNumber(f) == f.k = "num" /\ f.v > 0

\* C2: a payload with a required key missing, an invalid order_type or (add)
\* a take_profit that is no positive number is answered ok=false with
\* missing_fields, invalid_order_type or invalid_take_profit, before any
\* collaborator is contacted and with nothing written; so a request that
\* goes on has a side of BUY or SELL and (add) a positive take_profit.
C2_ValidationFailsFast ==
    \A p \in Procs :
        LET r == req[p]
        IN  r.op \in {"add", "cancel"} =>
                IF Reason(r) \in ValidationReasons
                THEN /\ r.result.ok = FALSE
                     /\ r.trace = <<>>
                     /\ Snapshot = pre
                     /\ (Reason(r) = <<"missing_fields">>) =
                            (Missing(r.payload, Required(r.op)) # <<>>)
                     /\ Reason(r) = <<"missing_fields">> =>
                            r.result.fields = Missing(r.payload, Required(r.op))
                ELSE /\ r.side \in {"BUY", "SELL"}
                     /\ r.op = "add" => PositiveNumber(r.tp_raw)

\* C3: an unsupported (user_type, sending_orders) pair ends the request with
\* unsupported_flow after the config read alone, with no store written and
\* nothing sent to the gateway; a live account whose preference is neither
\* rock nor barclays is given no default flow.
C3_UnsupportedFlowNoSideEffects ==
    \A p \in Procs :
        LET r == req[p]
        IN  /\ Reason(r) = <<"unsupported_flow">> =>
                /\ r.result.ok = FALSE
                /\ r.trace = <<Call("fetch_user_config", "ok")>>
                /\ Snapshot = pre
            /\ ( /\ FlowJustResolved(r)
                 /\ r.user_type = "live"
                 /\ r.sending_orders \notin {"rock", "barclays"} ) =>
                    /\ Reason(r) = <<"unsupported_flow">>
                    /\ r.flow = Unset

\* add_takeprofit has answered unsupported_flow to a live account without a
\* preference, the placed order's caches being there to write to.
C3_Witness ==
    \E p \in Procs :
        /\ req[p].op = "add"
        /\ Reason(req[p]) = <<"unsupported_flow">>
        /\ req[p].result.details = [user_type |-> "live", sending_orders |-> ""]
        /\ order_data["A"] # <<>>

LocalWrites(r) ==
    {"hset_order_data", "hset_user_holdings", "publish"} \cap Range(CallNames(r))

\* C4: on the local add flow an upsert that reports failure ends the request
\* with upsert_triggers_failed, order_data, user_holdings and the queue
\* untouched; these are written only after an upsert that succeeded.
C4_UpsertFailureStopsAdd ==
    \A p \in Procs :
        LET r == req[p]
        IN  (r.op = "add" /\ r.flow = "local") =>
                /\ Has(r, "upsert_order_triggers", "false") =>
                      /\ r.pc = "done"
                      /\ r.result = [ok |-> FALSE, reason |-> <<"upsert_triggers_failed">>]
                      /\ LastCall(r) = Call("upsert_order_triggers", "false")
                /\ ~Has(r, "upsert_order_triggers", "ok") =>
                      /\ LocalWrites(r) = {}
                      /\ triggers = pre.triggers
                      /\ order_data = pre.order_data
                      /\ user_holdings = pre.user_holdings
                      /\ queue = pre.queue

\* A local add has ended with upsert_triggers_failed.
C4_Witness ==
    \E p \in Procs :
        /\ req[p].op = "add"
        /\ req[p].flow = "local"
        /\ Reason(req[p]) = <<"upsert_triggers_failed">>

\* C5: once the upsert has succeeded, a local add returns ok=true with
\* flow=local and the score_take_profit it stored, having attempted both
\* cache mirrors and the publish, whichever of the three failed.
C5_LocalAddBestEffort ==
    \A p \in Procs :
        LET r == req[p]
        IN  (r.op = "add" /\ Has(r, "upsert_order_triggers", "ok")) =>
                /\ r.pc \in {"hset_order_data", "hset_user_holdings", "publish", "done"}
                /\ r.pc = "done" =>
                      /\ r.result.ok
                      /\ r.result.flow = "local"
                      /\ r.result.score_take_profit
                            = triggers[r.order_id].score_take_profit
                      /\ CallNames(r) =
                            <<"fetch_user_config", "fetch_group_data", "upsert_order_triggers",
                              "hset_order_data", "hset_user_holdings", "publish">>

\* A local add has returned ok though both mirrors and the publish failed.
C5_Witness ==
    \E p \in Procs :
        /\ req[p].op = "add"
        /\ req[p].pc = "done"
        /\ req[p].result.ok
        /\ Has(req[p], "upsert_order_triggers", "ok")
        /\ Has(req[p], "hset_order_data", "raise")
        /\ Has(req[p], "hset_user_holdings", "raise")
        /\ Has(req[p], "publish", "raise")
        /\ queue = <<>>

\* C6: after the gateway accepted a provider cancel, the result is decided
\* by the TAKEPROFIT-CANCEL status write alone: a write that raises gives
\* ok=false with redis_status_update_failed, a write that succeeds gives
\* ok=true with provider_cancel_sent, whatever the read-back returns and
\* whether or not it raises.
C6_ProviderCancelDecidedByStatusWrite ==
    \A p \in Procs :
        LET r == req[p]
        IN  (r.op = "cancel" /\ Has(r, "send_provider_order", "ok")) =>
                /\ r.pc \in {"mark_status", "verify_status", "done"}
                /\ gateway = Append(pre.gateway, CancelProviderPayload(r))
                /\ Has(r, "mark_status", "raise") =>
                      /\ r.pc = "done"
                      /\ r.result.ok = FALSE
                      /\ Reason(r) = <<"redis_status_update_failed">>
                      /\ ~Attempted(r, "hget_status")
                /\ Has(r, "mark_status", "ok") =>
                      /\ r.pc \in {"verify_status", "done"}
                      /\ r.pc = "done" =>
                            /\ r.result.ok
                            /\ r.result.provider_cancel_sent
                            /\ r.result.flow = "provider"
                            /\ LastCall(r).call = "hget_status"

\* A provider cancel has returned ok though the read-back found another
\* status than TAKEPROFIT-CANCEL.
C6_Witness ==
    \E p \in Procs :
        /\ req[p].op = "cancel"
        /\ req[p].pc = "done"
        /\ req[p].result.ok
        /\ Has(req[p], "mark_status", "ok")
        /\ Has(req[p], "hget_status", "ok")
        /\ LastCall(req[p]).value = "CLOSED"

\* The price a provider add reports as sent: take_profit plus the half
\* spread for BUY, minus it for SELL.
SpreadAdjusted(r) ==
    IF r.side = "BUY" THEN FAdd(r.tp_raw, r.half_spread) ELSE FSub(r.tp_raw, r.half_spread)

\* C7: on the provider add flow the result depends on the gateway call
\* alone: ok=true with the spread-adjusted take_profit_sent exactly when the
\* gateway reported success, ok=false with provider_send_failed:<via>
\* exactly when it reported failure, whichever of the lifecycle-id
\* registration, the TAKEPROFIT mark and the cache read failed before.
C7_ProviderAddDecidedByGateway ==
    \A p \in Procs :
        LET r == req[p]
        IN  (r.op = "add" /\ r.flow = "provider") =>
                /\ ~Attempted(r, "send_provider_order") =>
                      r.pc \in {"compute_half_spread", "add_lifecycle_id", "mark_status",
                                "hgetall_order_data", "fetch_contract_size",
                                "send_provider_order"}
                /\ Has(r, "send_provider_order", "ok") =>
                      /\ r.pc = "done"
                      /\ r.result.ok
                      /\ r.result.take_profit_sent = SpreadAdjusted(r)
                      /\ r.result.take_profit_sent = gateway[Len(gateway)].takeprofit
                /\ Has(r, "send_provider_order", "false") =>
                      /\ r.pc = "done"
                      /\ r.result = [ok |-> FALSE,
                                     reason |-> <<"provider_send_failed:", LastCall(r).value>>]
                /\ r.pc = "done" =>
                      /\ LastCall(r).call = "send_provider_order"
                      /\ r.result.ok = (LastCall(r).out = "ok")

\* A provider add has returned ok though the lifecycle-id registration, the
\* TAKEPROFIT mark and the cache read all failed.
C7_Witness ==
    \E p \in Procs :
        /\ req[p].op = "add"
        /\ req[p].pc = "done"
        /\ req[p].result.ok
        /\ Has(req[p], "add_lifecycle_id", "raise")
        /\ Has(req[p], "mark_status", "raise")
        /\ Has(req[p], "hgetall_order_data", "raise")
        /\ Has(req[p], "send_provider_order", "ok")

\* C8: once the flow check has passed, a local cancel returns ok=true
\* whether or not a trigger existed and whichever of the trigger removal,
\* the cache pipeline and the publish failed, each of them attempted.
C8_LocalCancelAlwaysOk ==
    \A p \in Procs :
        LET r == req[p]
        IN  (r.op = "cancel" /\ r.flow = "local") =>
                /\ r.pc \in {"remove_takeprofit_trigger", "clear_caches", "publish", "done"}
                /\ r.pc = "done" =>
                      /\ r.result = [ok |-> TRUE, flow |-> "local", order_id |-> r.order_id,
                                     symbol |-> r.symbol, order_type |-> r.side,
                                     note |-> "Takeprofit cancelled locally"]
                      /\ CallNames(r) =
                            <<"fetch_user_config", "remove_takeprofit_trigger",
                              "clear_caches", "publish">>

\* A local cancel of an order that had a trigger has returned ok though the
\* removal, the pipeline and the publish all failed.
C8_Witness ==
    \E p \in Procs :
        /\ req[p].op = "cancel"
        /\ req[p].pc = "done"
        /\ req[p].result.ok
        /\ req[p].order_id \in DOMAIN pre.triggers
        /\ Has(req[p], "remove_takeprofit_trigger", "raise")
        /\ Has(req[p], "clear_caches", "raise")
        /\ Has(req[p], "publish", "raise")

\* A local cancel of an order without a trigger has returned ok.
C8_WitnessNoTrigger ==
    \E p \in Procs :
        /\ req[p].op = "cancel"
        /\ req[p].pc = "done"
        /\ req[p].result.ok
        /\ req[p].flow = "local"
        /\ req[p].order_id \notin DOMAIN pre.triggers

(***************************************************************************)
(* Add then cancel.                                                        *)
(***************************************************************************)
\* The cancel has returned ok on the local flow, after an add that returned
\* ok on the local flow for the order id the cancel was given.
AddThenCancelDone(r) ==
    /\ history # <<>>
    /\ history[1].pc = "done"
    /\ history[1].result.ok
    /\ history[1].flow = "local"
    /\ r.op = "cancel"
    /\ r.pc = "done"
    /\ r.result.ok
    /\ r.flow = "local"

\* No trigger for the order, and both its mirrors open without take_profit.
Cleared(user_type, user_id, order_id) ==
    /\ order_id \notin DOMAIN triggers
    /\ StatusOf(order_data[order_id]) = "OPEN"
    /\ "take_profit" \notin DOMAIN order_data[order_id]
    /\ StatusOf(user_holdings[<<user_type, user_id, order_id>>]) = "OPEN"
    /\ "take_profit" \notin DOMAIN user_holdings[<<user_type, user_id, order_id>>]

C10_ProviderAddReturnsWithoutAck ==
    \A p \in Procs :
        LET r == req[p]
        IN  (r.op = "add" /\ Has(r, "send_provider_order", "ok")) =>
                /\ r.pc = "done"
                /\ r.result.ok
                /\ r.result.flow = "provider"
                /\ LastCall(r).call = "send_provider_order"
                /\ Cardinality({i \in DOMAIN r.trace :
                                   r.trace[i].call = "send_provider_order"}) = 1
                /\ ~Attempted(r, "get_provider_ack")

\* A provider add has returned ok with the payload at the gateway and no
\* acknowledgement written.
C10_Witness ==
    \E p \in Procs :
        /\ req[p].op = "add"
        /\ req[p].pc = "done"
        /\ req[p].result.ok
        /\ req[p].flow = "provider"
        /\ gateway # <<>>
        /\ gateway[Len(gateway)].status = "TAKEPROFIT"
        /\ acks = <<>>

\* C11: every outcome of add_takeprofit and cancel_takeprofit is a result
\* with an ok field; no failure of a collaborator call leaves the handler
\* as an exception.
C11_AlwaysStructuredResult ==
    \A p \in Procs :
        /\ req[p].pc # "raised"
        /\ req[p].pc = "done" => "ok" \in DOMAIN req[p].result

(***************************************************************************)
(* Prices.                                                                 *)
(***************************************************************************)
IsNumber(d, key) == key \in DOMAIN d /\ d[key].k = "num"

\* spread * spread_pip / 2 of the group's parameters, 0 without them.
GroupHalfSpread(g) ==
    IF IsNumber(g, "spread") /\ IsNumber(g, "spread_pip")
    THEN Num((g["spread"].v * g["spread_pip"].v) \div 2)
    ELSE Num(0)

\* The group lookup is the request's second call.
HalfSpreadKnown(r) == r.op = "add" /\ Len(r.trace) >= 2

ExpectedHalfSpread(r) ==
    IF r.trace[2].out = "ok" THEN GroupHalfSpread(world.gdata) ELSE Num(0)

\* The payload's price, adjusted by the request's side.
AdjustedPrice(r) ==
    IF r.side = "BUY"
    THEN FAdd(r.payload["take_profit"], ExpectedHalfSpread(r))
    ELSE FSub(r.payload["take_profit"], ExpectedHalfSpread(r))

\* C12: the trigger row a local add writes has the payload's take_profit
\* and score_take_profit = take_profit + half_spread for BUY, - half_spread
\* for SELL, the half spread being that of the group's parameters looked up
\* by the request, whatever score the payload carries; the gateway is sent
\* the price adjusted the same way, and the caches and the event carry the
\* payload's take_profit.
C12_PricesFollowFormula ==
    \A p \in Procs :
        LET r == req[p]
        IN  HalfSpreadKnown(r) =>
                /\ Has(r, "upsert_order_triggers", "ok") =>
                      /\ triggers[r.order_id].take_profit = r.payload["take_profit"]
                      /\ triggers[r.order_id].score_take_profit = AdjustedPrice(r)
                /\ Has(r, "hset_order_data", "ok") =>
                      order_data[r.order_id]["take_profit"] = Str(r.payload["take_profit"])
                /\ Has(r, "hset_user_holdings", "ok") =>
                      user_holdings[HoldingKey(r)]["take_profit"]
                         = Str(r.payload["take_profit"])
                /\ Has(r, "publish", "ok") =>
                      queue[Len(queue)].take_profit = r.payload["take_profit"]
                /\ Has(r, "send_provider_order", "ok") =>
                      gateway[Len(gateway)].takeprofit = AdjustedPrice(r)

\* A SELL trigger is stored at 10 - 1 though the payload said 99.
C12_Witness ==
    \E p \in Procs :
        /\ req[p].op = "add"
        /\ req[p].pc = "done"
        /\ req[p].result.ok
        /\ req[p].side = "SELL"
        /\ req[p].payload["score_take_profit"] = Num(99)
        /\ req[p].order_id \in DOMAIN triggers
        /\ triggers[req[p].order_id].score_take_profit = Num(9)
        /\ triggers[req[p].order_id].take_profit = Num(10)

\* C13: the half spread of a request is never negative, is 0 whenever the
\* group lookup fails or spread or spread_pip is absent or no number, and
\* its computation never fails the request.
C13_HalfSpreadNeverNegative ==
    \A p \in Procs :
        LET r == req[p]
        IN  HalfSpreadKnown(r) =>
                /\ r.pc # "raised" \/ Len(r.trace) > 2
                /\ r.half_spread.k = "num"
                /\ r.half_spread.v >= 0
                /\ ( \/ r.trace[2].out = "raise"
                     \/ ~IsNumber(world.gdata, "spread")
                     \/ ~IsNumber(world.gdata, "spread_pip") ) => r.half_spread = Num(0)

\* C17: on the provider flow of cancel_takeprofit neither cache keyspace
\* is written before the gateway has accepted the cancel; when the send
\* fails the request returns provider_send_failed:<via> with both keyspaces
\* as they were before the request.
C17_NoCacheWriteBeforeSend ==
    \A p \in Procs :
        LET r == req[p]
        IN  (r.op = "cancel" /\ r.flow = "provider") =>
                /\ ~Has(r, "send_provider_order", "ok") =>
                      /\ order_data = pre.order_data
                      /\ user_holdings = pre.user_holdings
                      /\ ~Attempted(r, "mark_status")
                /\ Has(r, "send_provider_order", "false") =>
                      /\ r.pc = "done"
                      /\ r.result = [ok |-> FALSE,
                                     reason |-> <<"provider_send_failed:", LastCall(r).value>>]

\* A provider cancel whose lifecycle id was registered has been refused by
\* the gateway, the order's cache record being there.
C17_Witness ==
    \E p \in Procs :
        /\ req[p].op = "cancel"
        /\ req[p].pc = "done"
        /\ Reason(req[p]) = <<"provider_send_failed:", "tcp">>
        /\ Has(req[p], "add_lifecycle_id", "ok")
        /\ StatusOf(order_data[req[p].order_id]) = "OPEN"

\* C18: whenever the gateway has accepted the cancel message of an order,
\* order_data:<order_id> holds status=TAKEPROFIT-CANCEL.
C18_AckAlwaysRoutable ==
    \A i \in DOMAIN gateway :
        gateway[i].status = "TAKEPROFIT-CANCEL" =>
            StatusOf(order_data[gateway[i].order_id]) = "TAKEPROFIT-CANCEL"

(***************************************************************************)
(* The acknowledgment waiter.                                              *)
(***************************************************************************)
\* A JSON object whose ord_status is, whatever its case, an expected one.
WellFormedMatch(raw, expect) ==
    /\ raw.kind = "json"
    /\ "ord_status" \in DOMAIN raw.data
    /\ Upper(raw.data["ord_status"]) \in expect

\* The waiter's i-th read returned such a record.
PollMatched(i) ==
    /\ waiter.polls[i].out = "ok"
    /\ WellFormedMatch(waiter.polls[i].raw, waiter.expect)

\* The key of the call's id.
WaitedKey == <<"provider:ack:", waiter.any_id>>

\* The consumer's latest write of a key, 0 when it never wrote it.
LastWrite(key) ==
    LET S == {i \in DOMAIN ack_log : ack_log[i].key = key}
    IN  IF S = {} THEN 0 ELSE CHOOSE i \in S : \A j \in S : j <= i

\* The channel holds what the consumer wrote and nothing else.
AcksAsWritten ==
    /\ DOMAIN acks = {ack_log[i].key : i \in DOMAIN ack_log}
    /\ \A key \in DOMAIN acks : acks[key] = ack_log[LastWrite(key)].raw

\* The call has returned with a matching record at its key.
ReturnedWithRecord ==
    /\ waiter.pc = "done"
    /\ WaitedKey \in DOMAIN acks
    /\ WellFormedMatch(acks[WaitedKey], waiter.expect)

\* C14: a _wait_for_provider_ack call with a timeout of zero or less reads
\* the acknowledgment channel not once and returns None.
C14_NoReadWithoutTime ==
    (waiter.pc # "idle" /\ waiter.timeout_ms <= 0) =>
        /\ waiter.polls = <<>>
        /\ waiter.pc \in {"test", "done"}
        /\ waiter.result = NoneV

\* A call with timeout 0 has returned though a matching record was there.
C14_Witness ==
    /\ ReturnedWithRecord
    /\ waiter.timeout_ms = 0
    /\ waiter.result = NoneV

C16_RecordBeforeDeadlineIsReturned ==
    (ReturnedWithRecord /\ ack_log[LastWrite(WaitedKey)].at < waiter.deadline) =>
        waiter.result = Str(Upper(acks[WaitedKey].data["ord_status"]))

\* C16 as the code has it: with a matching record at its key, the call
\* returns the status exactly when one of its reads made after the write
\* succeeded, and None, once the deadline has passed, when every read was
\* made before the write or failed.
C16_RecordReadIsReturned ==
    /\ ReturnedWithRecord =>
          /\ (waiter.result = Str(Upper(acks[WaitedKey].data["ord_status"])))
                <=> (\E i \in DOMAIN waiter.polls :
                        /\ i > ack_log[LastWrite(WaitedKey)].polls
                        /\ waiter.polls[i].out = "ok")
          /\ waiter.result = NoneV => now >= waiter.deadline
    /\ (waiter.pc = "done" /\ waiter.result # NoneV) => ReturnedWithRecord

\* A record written while the call slept was returned by a later read.
C16_Witness ==
    /\ ReturnedWithRecord
    /\ waiter.result = Str("REJECTED")
    /\ ack_log[LastWrite(WaitedKey)].at > 0
    /\ ack_log[LastWrite(WaitedKey)].at < waiter.deadline
    /\ ack_log[LastWrite(WaitedKey)].polls >= 1

(***************************************************************************)
(* Concurrent requests.                                                    *)
(***************************************************************************)
\* Everything the stores hold of one order.
OrderState(o) ==
    [trigger |-> IF o \in DOMAIN triggers THEN <<triggers[o]>> ELSE <<>>,
     order_data |-> order_data[o],
     user_holdings |-> [h \in {k \in HoldingKeys : k[3] = o} |-> user_holdings[h]],
     registry |-> {e \in registry : e[1] = o},
     queue |-> SelectSeq(queue, LAMBDA m : m.order_id = o),
     gateway |-> SelectSeq(gateway, LAMBDA m : m.order_id = o)]

\* C19: a step of a request leaves every order but the request's own as
\* it was: its trigger row, its order_data and user_holdings records, its
\* registry entries and its messages.
C19_TouchesOwnOrderOnly ==
    [][\A p \in Procs :
          req'[p] # req[p] =>
              \A o \in OrderIds \ {req'[p].order_id} : OrderState(o)' = OrderState(o)]_vars

\* Both requests are half way: A's local add has stored its trigger and
\* B's provider cancel has been sent while A's caches are still to write.
C19_Witness ==
    /\ req[1].op = "add"
    /\ req[1].pc = "hset_order_data"
    /\ "A" \in DOMAIN triggers
    /\ req[2].op = "cancel"
    /\ req[2].pc = "mark_status"
    /\ Len(gateway) = 1
    /\ gateway[1].order_id = "B"

\* C20: when a local add and a local cancel of one order have both
\* returned, every call having succeeded, either the order has a trigger
\* and both caches hold its take_profit, or it has none and neither cache
\* holds a take_profit.
C20_RaceEndsInAgreement ==
    (req[1].pc = "done" /\ req[2].pc = "done") =>
        LET o == req[1].order_id
            od == order_data[o]
            uh == user_holdings[HoldingKey(req[1])]
        IN  \/ /\ o \in DOMAIN triggers
               /\ "take_profit" \in DOMAIN od
               /\ od["take_profit"] = Str(triggers[o].take_profit)
               /\ "take_profit" \in DOMAIN uh
               /\ uh["take_profit"] = Str(triggers[o].take_profit)
            \/ /\ o \notin DOMAIN triggers
               /\ "take_profit" \notin DOMAIN od
               /\ "take_profit" \notin DOMAIN uh

(***************************************************************************)
(* The routing mark of the provider add.                                   *)
(***************************************************************************)
\* The place of a call in the request's trace, 0 when it was not made.
CallIndex(r, name) ==
    IF Attempted(r, name)
    THEN CHOOSE i \in DOMAIN r.trace : r.trace[i].call = name
    ELSE 0

\* C21: on the provider flow of add_takeprofit the status=TAKEPROFIT mark
\* is attempted before the gateway is called; once the mark has succeeded,
\* order_data:<order_id> and the user_holdings record keep what it wrote to
\* the end of the request, and a send that then fails returns
\* provider_send_failed:<via> with both still at status TAKEPROFIT and the
\* gateway holding nothing new; the flow leaves the trigger store and the
\* queue as they were.
C21_MarkStaysAfterSendFailure ==
    \A p \in Procs :
        LET r == req[p]
        IN  (r.op = "add" /\ r.flow = "provider") =>
                /\ triggers = pre.triggers
                /\ queue = pre.queue
                /\ Attempted(r, "send_provider_order") =>
                      /\ Attempted(r, "mark_status")
                      /\ CallIndex(r, "mark_status") < CallIndex(r, "send_provider_order")
                /\ Has(r, "mark_status", "ok") =>
                      /\ order_data =
                            [pre.order_data EXCEPT ![r.order_id] =
                                HSet(@, ("status" :> "TAKEPROFIT") @@ ("symbol" :> r.symbol)
                                        @@ ("order_type" :> r.side))]
                      /\ user_holdings =
                            [pre.user_holdings EXCEPT ![HoldingKey(r)] =
                                HSet(@, "status" :> "TAKEPROFIT")]
                      /\ StatusOf(order_data[r.order_id]) = "TAKEPROFIT"
                      /\ StatusOf(user_holdings[HoldingKey(r)]) = "TAKEPROFIT"
                /\ Has(r, "send_provider_order", "false") =>
                      /\ r.pc = "done"
                      /\ r.result = [ok |-> FALSE,
                                     reason |-> <<"provider_send_failed:", LastCall(r).value>>]
                      /\ gateway = pre.gateway

\* A provider add of an open order was refused by the gateway after its
\* mark: the request has failed and both caches say TAKEPROFIT.
C21_Witness ==
    \E p \in Procs :
        /\ req[p].op = "add"
        /\ req[p].pc = "done"
        /\ Reason(req[p]) = <<"provider_send_failed:", "uds">>
        /\ Has(req[p], "mark_status", "ok")
        /\ StatusOf(pre.order_data[req[p].order_id]) = "OPEN"
        /\ StatusOf(order_data[req[p].order_id]) = "TAKEPROFIT"
        /\ StatusOf(user_holdings[HoldingKey(req[p])]) = "TAKEPROFIT"
        /\ triggers = <<>>
        /\ queue = <<>>
====
